---- MODULE Spec2Model ----
(***************************************************************************)
(* A model of the toefl-prep browser client: the session store             *)
(* (AuthProvider), the HTTP client (request), the payload normalizers, the *)
(* quiz session controller (QuizPage), the dashboard aggregator           *)
(* (DashboardPage) and the routes of the authenticated App.                *)
(*                                                                         *)
(* JavaScript values are records of one shape, [k, n, s, keys, items]:     *)
(* k is the type tag, n the number (or 0/1 for a boolean), s the string,   *)
(* items the elements of an array or the own values of an object, and keys *)
(* the own keys of an object in own-property order.                        *)
(***************************************************************************)
EXTENDS Integers, Sequences, FiniteSets, TLC

VARIABLES
  \* Session store (AuthPage.jsx 154-262)
  slot,             \* the durable slot localStorage[STORAGE_KEY]
  authState,        \* useState(getStoredAuth): the in-memory identity
  isAuthenticating, \* useState(false)
  authPc,           \* the authenticate() awaiting its response: idle/login/signup
  logoutsInFlight,  \* the logout() calls awaiting their response
  mode,             \* AuthPage: useState('login')
  feedback,         \* AuthPage: useState({ error: null, success: null })
  submitterMounted, \* the AuthPage whose handleSubmit awaits is still mounted
  authEvent,        \* history: what the last auth step did
  route,            \* BrowserRouter: the path of the current location
  \* Quiz controller (QuizPage.jsx 36-126)
  config,           \* useState(defaultQuizConfig): what the three selects show
  startFocus,       \* config.focus in the closure of the startQuiz call that awaits
                    \* the start response (the one field it reads after the await)
  session, questions, answers, submission, status,
  quizPc,           \* the quiz request in flight: idle/starting/fetching/submitting
  sent,             \* the body of the submit request in flight
  quizEvent,        \* history: what the last quiz step did
  submitReply,      \* history: what request() returned or threw for the last
                    \* submit since the last startQuiz
  sameAttempt,      \* history: session and questions/answers were produced by
                    \* the same startQuiz call (or neither exists yet)
  \* Dashboard aggregator (QuizPage.jsx 319-347)
  dashboardData, lessonPlan, loading, error,
  dashReq, planReq, \* the two requests of Promise.all: none/pending/ok/failed
  joined,           \* whether the Promise.all of the current refresh has settled
  dashEvent,        \* history: what the last dashboard step did
  snapshot,         \* history: <<dashboardData, lessonPlan>> when the refresh began
  errorsReported,   \* history: setError(message) calls of the current refresh
  \* Normalizer harness
  normIn,           \* the payload handed to the normalizers
  normOutQ,         \* normalizeQuestions(normIn), undefined until it is called
  normOutL          \* normalizeLessons(normIn), undefined until it is called

authVars == <<slot, authState, isAuthenticating, authPc, logoutsInFlight, mode,
              feedback, submitterMounted, authEvent, route>>
quizVars == <<config, startFocus, session, questions, answers, submission, status, quizPc, sent,
              quizEvent, submitReply, sameAttempt>>
dashVars == <<dashboardData, lessonPlan, loading, error, dashReq, planReq,
              joined, dashEvent, snapshot, errorsReported>>
normVars == <<normIn, normOutQ, normOutL>>
vars == <<authVars, quizVars, dashVars, normVars>>

(***************************************************************************)
(* JavaScript values                                                       *)
(***************************************************************************)
Undef == [k |-> "undefined", n |-> 0, s |-> "", keys |-> <<>>, items |-> <<>>]
NullV == [k |-> "null", n |-> 0, s |-> "", keys |-> <<>>, items |-> <<>>]
Num(i) == [k |-> "number", n |-> i, s |-> "", keys |-> <<>>, items |-> <<>>]
Str(t) == [k |-> "string", n |-> 0, s |-> t, keys |-> <<>>, items |-> <<>>]
Arr(xs) == [k |-> "array", n |-> 0, s |-> "", keys |-> <<>>, items |-> xs]
Obj(ks, xs) == [k |-> "object", n |-> 0, s |-> "", keys |-> ks, items |-> xs]

\* ToBoolean: what `if (v)`, `!v`, `v || w` and `v ? a : b` test.
Truthy(v) ==
  CASE v.k = "undefined" -> FALSE
    [] v.k = "null" -> FALSE
    [] v.k = "number" -> v.n # 0
    [] v.k = "string" -> v.s # ""
    [] OTHER -> TRUE

\* v ?? w
Coalesce(v, w) == IF v.k \in {"undefined", "null"} THEN w ELSE v

\* v?.key for the keys the program reads (never "length"): the own property
\* of an object, undefined on anything else.
Get(v, key) ==
  IF v.k = "object" /\ \E i \in 1..Len(v.keys) : v.keys[i] = key
  THEN v.items[CHOOSE i \in 1..Len(v.keys) : v.keys[i] = key]
  ELSE Undef

\* Array.isArray(v)
IsArray(v) == v.k = "array"

\* typeof v === 'object': true of null, arrays and objects.
TypeofObject(v) == v.k \in {"null", "array", "object"}

\* String(v) and `${v}`.
RECURSIVE ToStr(_)
RECURSIVE JoinFrom(_, _)
JoinFrom(xs, i) ==
  IF i > Len(xs) THEN ""
  ELSE (IF xs[i].k \in {"undefined", "null"} THEN "" ELSE ToStr(xs[i]))
       \o (IF i < Len(xs) THEN "," ELSE "") \o JoinFrom(xs, i + 1)
ToStr(v) ==
  CASE v.k = "undefined" -> "undefined"
    [] v.k = "null" -> "null"
    [] v.k = "number" -> ToString(v.n)
    [] v.k = "string" -> v.s
    [] v.k = "array" -> JoinFrom(v.items, 1)
    [] OTHER -> "[object Object]"

(***************************************************************************)
(* Text: the durable slot and a response body.  st is "absent" (getItem    *)
(* returns null), "empty" (the empty string), "garbage" (text JSON.parse   *)
(* rejects) or "json" (text that parses to val).                           *)
(***************************************************************************)
NoItem == [st |-> "absent", val |-> Undef]
EmptyText == [st |-> "empty", val |-> Undef]
Garbage == [st |-> "garbage", val |-> Undef]
JsonText(v) == [st |-> "json", val |-> v]

\* JSON.stringify of a value the program serializes: an object loses the
\* keys whose value is undefined, every other value is written as it is.
RECURSIVE DropUndefined(_, _, _)
DropUndefined(ks, xs, i) ==
  IF i > Len(ks) THEN [keys |-> <<>>, items |-> <<>>]
  ELSE LET rest == DropUndefined(ks, xs, i + 1) IN
       IF xs[i].k = "undefined" THEN rest
       ELSE [keys |-> <<ks[i]>> \o rest.keys, items |-> <<xs[i]>> \o rest.items]
JSONstringify(v) ==
  IF v.k = "object"
  THEN LET kept == DropUndefined(v.keys, v.items, 1) IN JsonText(Obj(kept.keys, kept.items))
  ELSE JsonText(v)

\* JSON.parse(text): the value, or a SyntaxError.
JSONparse(text) ==
  IF text.st = "json" THEN [threw |-> FALSE, val |-> text.val]
  ELSE [threw |-> TRUE, val |-> Undef]

(***************************************************************************)
(* HTTP client                                                             *)
(***************************************************************************)
\* request(): from the server's reply [status, body] to what the call
\* returns (data) or throws (an Error whose message is the string of
\* data?.message, or the generic text).
request(reply) ==
  LET parsed == JSONparse(reply.body)
      data == IF reply.body.st \in {"absent", "empty"} \/ parsed.threw
              THEN Undef ELSE parsed.val
      ok == reply.status >= 200 /\ reply.status <= 299
  IN IF ~ok
     THEN [threw |-> TRUE,
           message |-> IF Truthy(Get(data, "message")) THEN Str(ToStr(Get(data, "message")))
                       ELSE Str("Request failed with status " \o ToString(reply.status)),
           data |-> Undef]
     ELSE [threw |-> FALSE, message |-> Undef, data |-> data]

Reply(code, body) == [status |-> code, body |-> body]

(***************************************************************************)
(* Session store                                                           *)
(***************************************************************************)
Identity(u, t) == Obj(<<"user", "token">>, <<u, t>>)
EmptyIdentity == Identity(NullV, NullV)

\* getStoredAuth(): the lazy initial state of useState.
getStoredAuth(stored) ==
  IF stored.st \in {"absent", "empty"} THEN EmptyIdentity
  ELSE LET parsed == JSONparse(stored) IN
       IF parsed.threw THEN EmptyIdentity ELSE parsed.val

\* const [{ user, token }, setAuthState] = useState(...): destructuring
\* null (or undefined) throws a TypeError in every render of AuthProvider.
RenderThrows == authState.k \in {"null", "undefined"}
user == Get(authState, "user")
token == Get(authState, "token")
isAuthenticated == Truthy(token)

\* persistState(nextState): the identity in memory and the slot after it.
persistState(nextState) ==
  [authState |-> nextState,
   slot |-> IF ~Truthy(Get(nextState, "token")) THEN NoItem
            ELSE JSONstringify(nextState)]

\* authenticate(): nextState from the response.
nextStateOf(response) ==
  Identity(Coalesce(Get(response, "user"), NullV),
           Coalesce(Get(response, "token"), NullV))

\* What the durable slot may hold when the application starts.
UserAlice == Obj(<<"id", "email">>, <<Str("u1"), Str("alice@example.com")>>)
UserBob == Obj(<<"name", "targetScore">>, <<Str("Bob"), Num(100)>>)
StoredSlots ==
  {NoItem, EmptyText, Garbage, JsonText(NullV), JsonText(Num(7)),
   JSONstringify(Identity(UserAlice, Str("t0"))),
   JSONstringify(Identity(NullV, Str("t2")))}

\* What the server may answer to /api/login and /api/signup.
AuthReplies ==
  {Reply(200, JsonText(Identity(UserAlice, Str("t1")))),
   Reply(200, JsonText(Identity(UserBob, Str("t3")))),
   Reply(200, JsonText(Identity(UserBob, Str("t1")))),
   Reply(200, JsonText(Identity(UserAlice, Num(42)))),
   Reply(200, JsonText(Identity(UserBob, NullV))),
   Reply(200, JsonText(Obj(<<"user">>, <<UserAlice>>))),
   Reply(200, JsonText(Obj(<<"token">>, <<Str("t2")>>))),
   Reply(200, JsonText(Identity(UserAlice, Str("")))),
   Reply(200, EmptyText),
   Reply(200, Garbage),
   Reply(401, JsonText(Obj(<<"message">>, <<Str("Invalid credentials")>>))),
   Reply(500, Garbage)}

\* What the server may answer to /api/logout.
LogoutReplies ==
  {Reply(200, EmptyText), Reply(200, JsonText(Obj(<<"ok">>, <<Num(1)>>))),
   Reply(401, JsonText(Obj(<<"message">>, <<Str("Token expired")>>))),
   Reply(500, EmptyText)}

\* History record of an auth step: the operation, how the call ended
\* ("pending", "returned" or "threw") and how its request went ("none" when
\* no request was made, "ok", "failed").
AuthEv(op, outcome, net) == [op |-> op, outcome |-> outcome, net |-> net]

Feedback(e, ok) == [error |-> e, success |-> ok]
SignupSuccess == Str("Account created. Redirecting you to your dashboard...")

\* Mutant of ProtectedRoute: the isAuthenticated test is left out.
ProtectedRouteUnchecked(children, authenticated, authenticating) ==
  IF authenticating THEN "Checking"
  ELSE children

\* ProtectedRoute: what it renders around children for the two flags of
\* useAuth(): the placeholder, <Navigate to="/auth" replace />, or children.
ProtectedRoute(children, authenticated, authenticating) ==
  IF authenticating THEN "Checking"
  ELSE IF ~authenticated THEN "NavigateAuth"
  ELSE children

\* The paths a location may have: the three routes of App and one that
\* only the wildcard route matches.
Paths == {"/auth", "/", "/quiz", "/other"}

\* <Routes> of App: the element rendered in the Outlet at a path.
RouteElement(path, authenticated, authenticating) ==
  CASE path = "/auth" -> "AuthPage"
    [] path = "/" -> ProtectedRoute("DashboardPage", authenticated, authenticating)
    [] path = "/quiz" -> ProtectedRoute("QuizPage", authenticated, authenticating)
    [] OTHER -> "NavigateHome"

\* The path the router rests at once the effects of what was rendered at
\* path have run: the two <Navigate replace /> elements, and the effect of
\* AuthPage that navigates to / when isAuthenticated.
RECURSIVE Resolve(_, _, _)
Resolve(path, authenticated, authenticating) ==
  LET element == RouteElement(path, authenticated, authenticating) IN
  CASE element = "NavigateAuth" -> Resolve("/auth", authenticated, authenticating)
    [] element = "NavigateHome" -> Resolve("/", authenticated, authenticating)
    [] element = "AuthPage" /\ authenticated -> Resolve("/", authenticated, authenticating)
    [] OTHER -> path

\* The element the routes give the Outlet: nothing when AuthProvider threw
\* while rendering.
Outlet ==
  IF RenderThrows THEN "Nothing"
  ELSE RouteElement(route, isAuthenticated, isAuthenticating)

(***************************************************************************)
(* Payload normalizers                                                     *)
(***************************************************************************)
EmptyArr == Arr(<<>>)

\* normalizeQuestions(payload)
normalizeQuestions(payload) ==
  IF ~Truthy(payload) THEN EmptyArr
  ELSE IF IsArray(Get(payload, "questions")) THEN Get(payload, "questions")
  ELSE IF IsArray(payload) THEN payload
  ELSE EmptyArr

\* getQuestionId(question, fallbackIndex); fallbackIndex counts from 0.
getQuestionId(question, fallbackIndex) ==
  IF Truthy(Get(question, "question_number"))
  THEN Str("question-" \o ToStr(Get(question, "question_number")))
  ELSE Coalesce(Get(question, "id"),
         Coalesce(Get(question, "questionId"), Str("q-" \o ToString(fallbackIndex))))

\* getOptions(question)
getOptions(question) ==
  IF Truthy(Get(question, "choices")) THEN Get(question, "choices")
  ELSE IF Truthy(Get(question, "answers")) THEN Get(question, "answers")
  ELSE IF Truthy(Get(question, "options")) THEN Get(question, "options")
  ELSE IF Truthy(Get(question, "choicesList")) THEN Get(question, "choicesList")
  ELSE EmptyArr

\* choiceValue of a rendered choice (QuizPage.jsx 210)
choiceValueOf(choice) ==
  ToStr(Coalesce(Get(choice, "value"), Coalesce(Get(choice, "id"), choice)))

\* The property key an id becomes in the AnswerMap (acc[id], answers[id]).
ToPropertyKey(v) == ToStr(v)

\* The ids of a question list, by position.
idsOf(qs) == [i \in 1..Len(qs.items) |-> getQuestionId(qs.items[i], i - 1)]

(***************************************************************************)
(* Quiz session controller                                                 *)
(***************************************************************************)
defaultQuizConfig ==
  Obj(<<"level", "questionCount", "focus">>,
      <<Str("intermediate"), Num(10), Str("Vocabulary")>>)
DemoUserId == Str("demo-user")

\* { ...obj, key: val }: an own key keeps its place, a new one is appended.
SetKey(obj, key, val) ==
  IF \E i \in 1..Len(obj.keys) : obj.keys[i] = key
  THEN Obj(obj.keys, [i \in 1..Len(obj.items) |->
                        IF obj.keys[i] = key THEN val ELSE obj.items[i]])
  ELSE Obj(obj.keys \o <<key>>, obj.items \o <<val>>)

\* { ...response }: the own properties of an object; nothing for undefined,
\* null or a number (the replies modelled are never an array or a string).
Spread(v) == IF v.k = "object" THEN Obj(v.keys, v.items) ELSE Obj(<<>>, <<>>)

\* startQuiz: sessionId and the session object made from the start response.
sessionIdOf(response) ==
  Coalesce(Get(response, "session_id"),
    Coalesce(Get(response, "sessionId"), Get(response, "id")))
sessionOf(response, focus) ==
  SetKey(SetKey(Spread(response), "sessionId", sessionIdOf(response)),
         "focus", focus)

\* response?.questions?.length > 0, for a questions field that is absent,
\* an array or a string.
hasEmbeddedQuestions(response) ==
  LET q == Get(response, "questions") IN
  CASE q.k = "array" -> Len(q.items) > 0
    [] q.k = "string" -> q.s # ""
    [] OTHER -> FALSE

\* Mutant of initialAnswers: the reduce starts from the previous AnswerMap
\* instead of {}.
initialAnswersMerged(qs) ==
  [key \in DOMAIN answers \cup {ToPropertyKey(idsOf(qs)[i]) : i \in 1..Len(qs.items)} |->
     IF key \in DOMAIN answers THEN answers[key] ELSE ""]

\* The AnswerMap startQuiz builds by reduce: every id mapped to ''.
initialAnswers(qs) ==
  [key \in {ToPropertyKey(idsOf(qs)[i]) : i \in 1..Len(qs.items)} |-> ""]

\* handleAnswerChange: { ...prev, [questionKey]: choiceValue }
handleAnswerChange(prev, questionKey, choiceValue) ==
  [key \in DOMAIN prev \cup {questionKey} |->
     IF key = questionKey THEN choiceValue ELSE prev[key]]

\* answeredCount and allAnswered (useMemo)
answeredCount == Cardinality({key \in DOMAIN answers : answers[key] # ""})
allAnswered == Len(questions.items) > 0 /\ answeredCount = Len(questions.items)

\* Mutant of formattedAnswers: the recorded values last question first.
formattedAnswersReversed(qs, ans) ==
  Arr([i \in 1..Len(qs.items) |->
         LET key == ToPropertyKey(idsOf(qs)[Len(qs.items) + 1 - i]) IN
         Str(IF key \in DOMAIN ans THEN ans[key] ELSE "")])

\* formattedAnswers of submitQuiz: answers[id] ?? '' by position.
formattedAnswers(qs, ans) ==
  Arr([i \in 1..Len(qs.items) |->
         LET key == ToPropertyKey(idsOf(qs)[i]) IN
         Str(IF key \in DOMAIN ans THEN ans[key] ELSE "")])

\* The body of the submit request.
submitBody(sess, qs, ans) ==
  Obj(<<"session_id", "user_id", "answers">>,
      <<IF Truthy(Get(sess, "sessionId")) THEN Get(sess, "sessionId")
        ELSE Get(sess, "session_id"),
        DemoUserId, formattedAnswers(qs, ans)>>)

Status(l, e) == [loading |-> l, error |-> e]

\* Mutant of submitCatch: the catch block also resets the AnswerMap.
submitCatchResets(message) ==
  [session |-> session, questions |-> questions,
   answers |-> [key \in DOMAIN answers |-> ""],
   submission |-> submission, status |-> Status(FALSE, message)]

\* The state the catch block of submitQuiz leaves: only status is set.
submitCatch(message) ==
  [session |-> session, questions |-> questions, answers |-> answers,
   submission |-> submission, status |-> Status(FALSE, message)]

\* The state submitQuiz leaves when the request succeeded.
submitThen(response) ==
  [session |-> session, questions |-> questions, answers |-> answers,
   submission |-> response, status |-> Status(FALSE, NullV)]

MaxQuestions == 2

\* The question records a server may return.
QuestionPool ==
  {Obj(<<"question_number", "choices">>, <<Num(1), Arr(<<Str("a"), Str("b")>>)>>),
   Obj(<<"id", "options">>, <<Str("q-1"), Arr(<<Obj(<<"value">>, <<Num(1)>>)>>)>>),
   Obj(<<"choices">>, <<Arr(<<Str("a"), Str("")>>)>>)}

RECURSIVE ListsUpTo(_, _)
ListsUpTo(pool, len) ==
  IF len = 0 THEN {<<>>}
  ELSE LET shorter == ListsUpTo(pool, len - 1) IN
       shorter \cup {Append(xs, x) : xs \in {l \in shorter : Len(l) = len - 1}, x \in pool}

QuestionLists == {Arr(xs) : xs \in ListsUpTo(QuestionPool, MaxQuestions)}

\* What the server may answer to /api/quiz/start.
StartReplies ==
  {Reply(200, JsonText(Obj(<<"session_id", "questions">>, <<Str("s1"), qs>>))) :
     qs \in QuestionLists}
  \cup {Reply(200, JsonText(Obj(<<"sessionId", "level">>, <<Str("s2"), Str("advanced")>>))),
        Reply(200, EmptyText),
        Reply(500, Garbage),
        Reply(422, JsonText(Obj(<<"message">>, <<Str("Invalid level")>>)))}

\* What the server may answer to /api/quiz/questions/{sessionId}: the list
\* wrapped in an object, a short list as a bare array, an object with no
\* list, an empty body, an error.
FetchReplies ==
  {Reply(200, JsonText(Obj(<<"questions">>, <<qs>>))) : qs \in QuestionLists}
  \cup {Reply(200, JsonText(qs)) : qs \in {l \in QuestionLists : Len(l.items) <= 1}}
  \cup {Reply(200, JsonText(Obj(<<"items">>, <<Num(3)>>))),
        Reply(200, EmptyText),
        Reply(404, JsonText(Obj(<<"message">>, <<Str("Session not found")>>)))}

\* What the server may answer to /api/quiz/submit.
SubmitReplies ==
  {Reply(200, JsonText(Obj(<<"score">>, <<Num(1)>>))),
   Reply(200, EmptyText),
   Reply(500, EmptyText)}

NoReply == [threw |-> FALSE, message |-> Undef, data |-> Undef]

\* v || w
OrElse(v, w) == IF Truthy(v) THEN v ELSE w

\* {v} as the child of an element: React throws "Objects are not valid as
\* a React child" for a plain object, also for one inside an array.
RECURSIVE ChildThrows(_)
ChildThrows(v) ==
  CASE v.k = "object" -> TRUE
    [] v.k = "array" -> \E i \in 1..Len(v.items) : ChildThrows(v.items[i])
    [] OTHER -> FALSE

\* choiceLabel of a rendered choice (QuizPage.jsx 209)
choiceLabelOf(choice) ==
  Coalesce(Get(choice, "label"), Coalesce(Get(choice, "text"), choice))

\* Rendering one <li> of the question list throws: question.prompt of
\* undefined or null, options.map of a value that is not an array, or a
\* child that is a plain object.
QuestionRenderThrows(question) ==
  \/ question.k \in {"undefined", "null"}
  \/ ChildThrows(OrElse(Get(question, "prompt"),
                  OrElse(Get(question, "text"), Get(question, "question"))))
  \/ ChildThrows(OrElse(Get(question, "skill"),
                  OrElse(Get(question, "topic"), Str("General"))))
  \/ (Truthy(Get(question, "difficulty")) /\ ChildThrows(Get(question, "difficulty")))
  \/ ~IsArray(getOptions(question))
  \/ \E c \in 1..Len(getOptions(question).items) :
       ChildThrows(choiceLabelOf(getOptions(question).items[c]))

\* Rendering QuizPage throws: the session section, rendered when session
\* is truthy, shows the session id and maps over the questions.  (The
\* submission section shows fields of the submit response, which are
\* numbers in every reply modelled.)
QuizRenderThrows ==
  /\ Truthy(session)
  /\ \/ ChildThrows(OrElse(Get(session, "sessionId"),
                     OrElse(Get(session, "session_id"),
                       OrElse(Get(session, "id"), Str("not provided")))))
     \/ ~IsArray(questions)
     \/ \E i \in 1..Len(questions.items) : QuestionRenderThrows(questions.items[i])

\* What is on the screen.  Nothing when AuthProvider threw while rendering
\* or when QuizPage did: no error boundary exists, so React unmounts the
\* whole tree and no control is left.
Rendered ==
  IF Outlet = "QuizPage" /\ QuizRenderThrows THEN "Nothing" ELSE Outlet

\* The options of the three selects of the quiz form; event.target.value
\* is the option's value as a string.
ConfigChanges ==
  {[name |-> "level", value |-> Str(v)] : v \in {"beginner", "intermediate", "advanced"}}
  \cup {[name |-> "questionCount", value |-> Str(v)] : v \in {"5", "10", "15"}}
  \cup {[name |-> "focus", value |-> Str(v)] :
          v \in {"Vocabulary", "Reading", "Listening", "Speaking"}}

\* The state of a QuizPage that has just mounted, which is also how the
\* model holds a QuizPage that is not mounted: requests of a page that was
\* unmounted settle into state nobody reads.
QuizFresh ==
  [config |-> defaultQuizConfig, startFocus |-> Undef,
   session |-> NullV, questions |-> EmptyArr, answers |-> [key \in {} |-> ""],
   submission |-> NullV, status |-> Status(FALSE, NullV), quizPc |-> "idle",
   sent |-> Undef, quizEvent |-> "none", submitReply |-> NoReply,
   sameAttempt |-> TRUE]

QuizIs(q) ==
  /\ config = q.config
  /\ startFocus = q.startFocus
  /\ session = q.session
  /\ questions = q.questions
  /\ answers = q.answers
  /\ submission = q.submission
  /\ status = q.status
  /\ quizPc = q.quizPc
  /\ sent = q.sent
  /\ quizEvent = q.quizEvent
  /\ submitReply = q.submitReply
  /\ sameAttempt = q.sameAttempt

QuizBecomes(q) ==
  /\ config' = q.config
  /\ startFocus' = q.startFocus
  /\ session' = q.session
  /\ questions' = q.questions
  /\ answers' = q.answers
  /\ submission' = q.submission
  /\ status' = q.status
  /\ quizPc' = q.quizPc
  /\ sent' = q.sent
  /\ quizEvent' = q.quizEvent
  /\ submitReply' = q.submitReply
  /\ sameAttempt' = q.sameAttempt

QuizInit == QuizIs(QuizFresh)

MaxSelectsOff == 1

\* The selects of the quiz form that show another option than the default.
SelectsOff(cfg) ==
  Cardinality({i \in 1..Len(cfg.keys) :
                 ToStr(cfg.items[i]) # ToStr(Get(defaultQuizConfig, cfg.keys[i]))})

\* handleConfigChange: a select of the quiz form is set to another option
\* than the one it shows (the option whose value is String(config[name])).
\* At most MaxSelectsOff selects are off their default at a time.
HandleConfigChange ==
  /\ Rendered = "QuizPage"
  /\ \E change \in ConfigChanges :
       /\ ToStr(Get(config, change.name)) # ToStr(change.value)
       /\ SelectsOff(SetKey(config, change.name, change.value)) <= MaxSelectsOff
       /\ config' = SetKey(config, change.name, change.value)
  /\ UNCHANGED <<startFocus, session, questions, answers, submission, status,
                 quizPc, sent, quizEvent, submitReply, sameAttempt>>
  /\ UNCHANGED <<authVars, dashVars, normVars>>

\* startQuiz up to the await of the start request.  The form's button is
\* disabled while status.loading.
StartQuizCall ==
  /\ Rendered = "QuizPage"
  /\ ~status.loading
  /\ startFocus' = Get(config, "focus")
  /\ status' = Status(TRUE, NullV)
  /\ submission' = NullV
  /\ quizPc' = "starting"
  /\ quizEvent' = "startSent"
  /\ submitReply' = NoReply
  /\ UNCHANGED <<config, session, questions, answers, sent, sameAttempt>>
  /\ UNCHANGED <<authVars, dashVars, normVars>>

\* The start response arrives: setSession, and either the questions it
\* embeds are taken or fetchQuizQuestions is awaited.
StartQuizSettle ==
  /\ quizPc = "starting"
  /\ \E reply \in StartReplies :
       LET r == request(reply) IN
       IF r.threw
       THEN /\ status' = Status(FALSE, r.message)
            /\ quizPc' = "idle"
            /\ quizEvent' = "startFailed"
            /\ UNCHANGED <<session, questions, answers, sameAttempt>>
       ELSE /\ session' = sessionOf(r.data, startFocus)
            /\ sameAttempt' = hasEmbeddedQuestions(r.data)
            /\ IF hasEmbeddedQuestions(r.data)
               THEN /\ questions' = normalizeQuestions(r.data)
                    /\ answers' = initialAnswers(normalizeQuestions(r.data))
                    /\ status' = Status(FALSE, NullV)
                    /\ quizPc' = "idle"
                    /\ quizEvent' = "startOk"
               ELSE /\ quizPc' = "fetching"
                    /\ quizEvent' = "fetchSent"
                    /\ UNCHANGED <<questions, answers, status>>
  /\ startFocus' = Undef
  /\ UNCHANGED <<config, submission, sent, submitReply>>
  /\ UNCHANGED <<authVars, dashVars, normVars>>

\* The questions response arrives: the rest of startQuiz.
FetchQuestionsSettle ==
  /\ quizPc = "fetching"
  /\ \E reply \in FetchReplies :
       LET r == request(reply) IN
       IF r.threw
       THEN /\ status' = Status(FALSE, r.message)
            /\ quizEvent' = "fetchFailed"
            /\ UNCHANGED <<questions, answers, sameAttempt>>
       ELSE /\ questions' = normalizeQuestions(r.data)
            /\ answers' = initialAnswers(normalizeQuestions(r.data))
            /\ sameAttempt' = TRUE
            /\ status' = Status(FALSE, NullV)
            /\ quizEvent' = "startOk"
  /\ quizPc' = "idle"
  /\ UNCHANGED <<config, startFocus, session, submission, sent, submitReply>>
  /\ UNCHANGED <<authVars, dashVars, normVars>>

\* The user picks a rendered choice of a rendered question (the list is
\* rendered when session is truthy; a checked radio fires no change).
RecordAnswer ==
  /\ Rendered = "QuizPage"
  /\ Truthy(session)
  /\ \E i \in 1..Len(questions.items) :
       LET key == ToPropertyKey(idsOf(questions)[i])
           options == getOptions(questions.items[i]) IN
       /\ IsArray(options)
       /\ \E c \in 1..Len(options.items) :
            LET choiceValue == choiceValueOf(options.items[c]) IN
            /\ ~(key \in DOMAIN answers /\ answers[key] = choiceValue)
            /\ answers' = handleAnswerChange(answers, key, choiceValue)
  /\ quizEvent' = "answer"
  /\ UNCHANGED <<config, startFocus, session, questions, submission, status,
                 quizPc, sent, submitReply, sameAttempt>>
  /\ UNCHANGED <<authVars, dashVars, normVars>>

\* submitQuiz up to the await of the submit request.  The button is
\* rendered when session is truthy and disabled unless allAnswered and
\* not status.loading.
SubmitQuizCall ==
  /\ Rendered = "QuizPage"
  /\ Truthy(session)
  /\ allAnswered
  /\ ~status.loading
  /\ status' = Status(TRUE, NullV)
  /\ sent' = submitBody(session, questions, answers)
  /\ quizPc' = "submitting"
  /\ quizEvent' = "submitSent"
  /\ UNCHANGED <<config, startFocus, session, questions, answers, submission,
                 submitReply, sameAttempt>>
  /\ UNCHANGED <<authVars, dashVars, normVars>>

\* The submit response arrives: the rest of submitQuiz.
SubmitQuizSettle ==
  /\ quizPc = "submitting"
  /\ \E reply \in SubmitReplies :
       LET r == request(reply)
           after == IF r.threw THEN submitCatch(r.message) ELSE submitThen(r.data) IN
       /\ session' = after.session
       /\ questions' = after.questions
       /\ answers' = after.answers
       /\ submission' = after.submission
       /\ status' = after.status
       /\ submitReply' = r
       /\ quizEvent' = IF r.threw THEN "submitFailed" ELSE "submitOk"
  /\ sent' = Undef
  /\ quizPc' = "idle"
  /\ UNCHANGED <<config, startFocus, sameAttempt>>
  /\ UNCHANGED <<authVars, dashVars, normVars>>

NextQuiz ==
  \/ HandleConfigChange
  \/ StartQuizCall
  \/ StartQuizSettle
  \/ FetchQuestionsSettle
  \/ RecordAnswer
  \/ SubmitQuizCall
  \/ SubmitQuizSettle

(***************************************************************************)
(* Dashboard aggregator                                                    *)
(***************************************************************************)
\* array.filter(keep) for keep = (entry) => typeof entry === 'object'
RECURSIVE FilterTypeofObject(_, _)
FilterTypeofObject(xs, i) ==
  IF i > Len(xs) THEN <<>>
  ELSE (IF TypeofObject(xs[i]) THEN <<xs[i]>> ELSE <<>>) \o FilterTypeofObject(xs, i + 1)

\* Object.values(v): the own values in own-property order.  The values of
\* a string are its characters, a number has none; undefined and null
\* raise a TypeError, and the operator has no value there.
ObjectValues(v) ==
  CASE v.k \in {"object", "array"} -> v.items
    [] v.k = "string" -> [i \in 1..Len(v.s) |-> Str(SubSeq(v.s, i, i))]
    [] v.k \notin {"object", "array", "string", "undefined", "null"} -> <<>>

\* normalizeLessons(lessonPlan)
normalizeLessons(payload) ==
  IF ~Truthy(payload) THEN EmptyArr
  ELSE IF IsArray(payload) THEN payload
  ELSE IF IsArray(Get(payload, "lessons")) THEN Get(payload, "lessons")
  ELSE IF Truthy(Get(payload, "plan")) /\ IsArray(Get(payload, "plan"))
       THEN Get(payload, "plan")
  ELSE IF Truthy(Get(payload, "sections")) /\ IsArray(Get(payload, "sections"))
       THEN Get(payload, "sections")
  ELSE Arr(FilterTypeofObject(ObjectValues(payload), 1))

\* A request of the pair: st is none/pending/ok/failed, path and
\* authorization are what request() put in the URL and the headers, val is
\* the value the promise resolved with.
Req(st, path, authorization, val) ==
  [st |-> st, path |-> path, authorization |-> authorization, val |-> val]
NoReq == Req("none", "", "", Undef)

\* apiClient.getDashboard(userId) and apiClient.getLessonPlan(token):
\* request() adds the Authorization header only for a truthy token.
getDashboard(userId) == Req("pending", "/api/dashboard/" \o ToStr(userId), "", Undef)
getLessonPlan(tok) ==
  Req("pending", "/api/lesson-plan",
      IF Truthy(tok) THEN "Bearer " \o ToStr(tok) ELSE "", Undef)

\* Mutant of fetchAllCatch: the half of the pair that was fulfilled is
\* applied although the other half rejected.
fetchAllCatchPartial(message) ==
  [dashboardData |-> IF dashReq.st = "ok" THEN dashReq.val ELSE dashboardData,
   lessonPlan |-> lessonPlan, error |-> message, loading |-> FALSE]

\* The state fetchAllData leaves when Promise.all rejected with message:
\* catch sets the error, finally resets loading.
fetchAllCatch(message) ==
  [dashboardData |-> dashboardData, lessonPlan |-> lessonPlan,
   error |-> message, loading |-> FALSE]

\* The state fetchAllData leaves when both requests were fulfilled.
fetchAllThen(dashboardResponse, lessonPlanResponse) ==
  [dashboardData |-> dashboardResponse,
   lessonPlan |-> normalizeLessons(lessonPlanResponse),
   error |-> error, loading |-> FALSE]

LessonA == Obj(<<"id", "title">>, <<Num(1), Str("Verbs")>>)
LessonB == Obj(<<"title", "status">>, <<Str("Idioms"), Str("done")>>)

\* What the server may answer to /api/dashboard/{userId}.
DashboardReplies ==
  {Reply(200, JsonText(Obj(<<"summary">>, <<Obj(<<"currentScore">>, <<Num(90)>>)>>))),
   Reply(200, JsonText(Obj(<<"currentScore">>, <<Num(80)>>))),
   Reply(500, EmptyText)}

\* What the server may answer to /api/lesson-plan.
LessonPlanReplies ==
  {Reply(200, JsonText(Arr(<<LessonA>>))),
   Reply(200, JsonText(Obj(<<"lessons">>, <<Arr(<<LessonA, LessonB>>)>>))),
   Reply(200, JsonText(Obj(<<"week", "a">>, <<Num(2), LessonB>>))),
   Reply(200, EmptyText),
   Reply(401, JsonText(Obj(<<"message">>, <<Str("Unauthorized")>>)))}

\* The useState values of a DashboardPage, which is also how the model
\* holds a DashboardPage that is not mounted.
DashFresh ==
  [dashboardData |-> NullV, lessonPlan |-> EmptyArr, loading |-> FALSE,
   error |-> NullV, dashReq |-> NoReq, planReq |-> NoReq, joined |-> TRUE,
   dashEvent |-> "none", snapshot |-> <<NullV, EmptyArr>>, errorsReported |-> 0]

\* A DashboardPage that has just mounted: the effect has called
\* fetchAllData(), which returns at once without a token.
DashMounted(tok) ==
  IF ~Truthy(tok) THEN DashFresh
  ELSE [DashFresh EXCEPT !.loading = TRUE,
                         !.dashReq = getDashboard(tok),
                         !.planReq = getLessonPlan(tok),
                         !.joined = FALSE,
                         !.dashEvent = "refresh"]

DashIs(d) ==
  /\ dashboardData = d.dashboardData
  /\ lessonPlan = d.lessonPlan
  /\ loading = d.loading
  /\ error = d.error
  /\ dashReq = d.dashReq
  /\ planReq = d.planReq
  /\ joined = d.joined
  /\ dashEvent = d.dashEvent
  /\ snapshot = d.snapshot
  /\ errorsReported = d.errorsReported

DashBecomes(d) ==
  /\ dashboardData' = d.dashboardData
  /\ lessonPlan' = d.lessonPlan
  /\ loading' = d.loading
  /\ error' = d.error
  /\ dashReq' = d.dashReq
  /\ planReq' = d.planReq
  /\ joined' = d.joined
  /\ dashEvent' = d.dashEvent
  /\ snapshot' = d.snapshot
  /\ errorsReported' = d.errorsReported

DashInit == DashIs(DashFresh)

\* fetchAllData from the "Refresh data" button, up to the await of
\* Promise.all; the button is disabled while loading.  Requests of an
\* earlier refresh that are still pending are settled by no one who
\* listens, and are dropped here.
FetchAllDataCall ==
  /\ Rendered = "DashboardPage"
  /\ Truthy(token)
  /\ ~loading
  /\ loading' = TRUE
  /\ error' = NullV
  /\ dashReq' = getDashboard(token)
  /\ planReq' = getLessonPlan(token)
  /\ joined' = FALSE
  /\ dashEvent' = "refresh"
  /\ snapshot' = <<dashboardData, lessonPlan>>
  /\ errorsReported' = 0
  /\ UNCHANGED <<dashboardData, lessonPlan>>
  /\ UNCHANGED <<authVars, quizVars, normVars>>

\* What fetchAllData does when one request of the pair has settled, the
\* pair now being dreq and preq: Promise.all rejects at the first rejection
\* and is fulfilled when both are; once it has settled, later results
\* change nothing.
JoinStep(dreq, preq, settled) ==
  IF joined
  THEN /\ dashEvent' = "ignored"
       /\ UNCHANGED <<dashboardData, lessonPlan, loading, error, joined, errorsReported>>
  ELSE IF settled.st = "failed"
  THEN LET after == fetchAllCatch(settled.val) IN
       /\ dashboardData' = after.dashboardData
       /\ lessonPlan' = after.lessonPlan
       /\ error' = after.error
       /\ loading' = after.loading
       /\ joined' = TRUE
       /\ errorsReported' = errorsReported + 1
       /\ dashEvent' = "failed"
  ELSE IF dreq.st = "ok" /\ preq.st = "ok"
  THEN LET after == fetchAllThen(dreq.val, preq.val) IN
       /\ dashboardData' = after.dashboardData
       /\ lessonPlan' = after.lessonPlan
       /\ error' = after.error
       /\ loading' = after.loading
       /\ joined' = TRUE
       /\ dashEvent' = "refreshed"
       /\ UNCHANGED errorsReported
  ELSE /\ dashEvent' = "waiting"
       /\ UNCHANGED <<dashboardData, lessonPlan, loading, error, joined, errorsReported>>

\* A pending request settled by the server's reply: fulfilled with the
\* data, or rejected with the error message.
Settled(req, reply) ==
  LET r == request(reply) IN
  IF r.threw THEN Req("failed", req.path, req.authorization, r.message)
  ELSE Req("ok", req.path, req.authorization, r.data)

\* The summary response arrives.
DashboardSettle ==
  /\ dashReq.st = "pending"
  /\ \E reply \in DashboardReplies :
       /\ dashReq' = Settled(dashReq, reply)
       /\ JoinStep(Settled(dashReq, reply), planReq, Settled(dashReq, reply))
  /\ UNCHANGED <<planReq, snapshot>>
  /\ UNCHANGED <<authVars, quizVars, normVars>>

\* The lesson-plan response arrives.
LessonPlanSettle ==
  /\ planReq.st = "pending"
  /\ \E reply \in LessonPlanReplies :
       /\ planReq' = Settled(planReq, reply)
       /\ JoinStep(dashReq, Settled(planReq, reply), Settled(planReq, reply))
  /\ UNCHANGED <<dashReq, snapshot>>
  /\ UNCHANGED <<authVars, quizVars, normVars>>

NextDash ==
  \/ FetchAllDataCall
  \/ DashboardSettle
  \/ LessonPlanSettle

(***************************************************************************)
(* Session store, AuthPage and router: the steps                           *)
(***************************************************************************)
MaxLogouts == 2

\* The useState values of an AuthPage, which is also how the model holds
\* an AuthPage that is not mounted.
AuthPageFresh == [feedback |-> Feedback(NullV, NullV), mode |-> "login"]

\* The quiz page and the dashboard page after a step of the session store
\* or the router: a page that stays rendered keeps its state unless the
\* location passed through another element (remount); a page that mounts
\* starts from its useState values and runs its effects; a page that is
\* not rendered has no state.  (These steps start from a tree that is
\* mounted, and a page that is kept or fresh renders as it did.)
PagesFollow(remount) ==
  /\ IF Outlet' = "QuizPage" /\ Rendered = "QuizPage" /\ ~remount
     THEN UNCHANGED quizVars
     ELSE QuizBecomes(QuizFresh)
  /\ IF Outlet' = "DashboardPage"
     THEN IF Rendered = "DashboardPage" /\ ~remount
          THEN UNCHANGED dashVars
          ELSE DashBecomes(DashMounted(token'))
     ELSE DashBecomes(DashFresh)

\* The state of AuthPage after such a step: fb and md if the same AuthPage
\* is still mounted.
AuthPageFollows(remount, fb, md) ==
  IF Outlet' = "AuthPage" /\ Rendered = "AuthPage" /\ ~remount
  THEN feedback' = fb /\ mode' = md
  ELSE feedback' = AuthPageFresh.feedback /\ mode' = AuthPageFresh.mode

AuthInit ==
  /\ slot \in StoredSlots
  /\ authState = getStoredAuth(slot)
  /\ isAuthenticating = FALSE
  /\ authPc = "idle"
  /\ logoutsInFlight = 0
  /\ mode = AuthPageFresh.mode
  /\ feedback = AuthPageFresh.feedback
  /\ submitterMounted = FALSE
  /\ authEvent = AuthEv("init", "none", "none")
  /\ \E path \in Paths :
       route = IF RenderThrows THEN path ELSE Resolve(path, isAuthenticated, FALSE)

\* The pages when the application has started: the page at the location
\* has mounted.
PagesInit ==
  /\ QuizInit
  /\ DashIs(IF Rendered = "DashboardPage" THEN DashMounted(token) ELSE DashFresh)

\* The location changes to another path by a NavLink or by the history
\* (back, forward), and the effects of what is rendered there run.
Visit ==
  /\ Rendered # "Nothing"
  /\ \E path \in Paths \ {route} :
       route' = Resolve(path, isAuthenticated, isAuthenticating)
  /\ submitterMounted' = FALSE
  /\ UNCHANGED <<slot, authState, isAuthenticating, authPc, logoutsInFlight, authEvent>>
  /\ AuthPageFollows(TRUE, feedback, mode)
  /\ PagesFollow(TRUE)
  /\ UNCHANGED normVars

\* toggleMode(nextMode): the "Log in" / "Sign up" buttons of AuthPage.
ToggleMode ==
  /\ Rendered = "AuthPage"
  /\ \E nextMode \in {"login", "signup"} : mode' = nextMode
  /\ feedback' = Feedback(NullV, NullV)
  /\ UNCHANGED <<slot, authState, isAuthenticating, authPc, logoutsInFlight,
                 submitterMounted, authEvent, route>>
  /\ UNCHANGED <<quizVars, dashVars, normVars>>

\* AuthPage.handleSubmit, up to the await inside login(formValues) /
\* signup(formValues), whichever the mode says.  The form's button is
\* disabled while isAuthenticating.
AuthenticateCall ==
  /\ Rendered = "AuthPage"
  /\ authPc = "idle"
  /\ ~isAuthenticating
  /\ isAuthenticating' = TRUE
  /\ authPc' = mode
  /\ feedback' = Feedback(NullV, NullV)
  /\ submitterMounted' = TRUE
  /\ authEvent' = AuthEv(mode, "pending", "none")
  /\ UNCHANGED <<slot, authState, logoutsInFlight, mode, route>>
  /\ UNCHANGED <<quizVars, dashVars, normVars>>

\* The response arrives: the rest of authenticate(), then the rest of
\* handleSubmit, which navigates to / after a call that returned and sets
\* the feedback of its AuthPage, if that is still mounted, after one that
\* threw.  In a tree that has unmounted the setState calls and navigate
\* do nothing; persistState still writes the slot.
AuthenticateSettle ==
  /\ authPc \in {"login", "signup"}
  /\ \E reply \in AuthReplies :
       LET r == request(reply) IN
       IF Rendered = "Nothing"
       THEN /\ slot' = IF r.threw THEN slot ELSE persistState(nextStateOf(r.data)).slot
            /\ authEvent' = AuthEv(authPc, IF r.threw THEN "threw" ELSE "returned",
                                    IF r.threw THEN "failed" ELSE "ok")
            /\ UNCHANGED <<authState, isAuthenticating, route, feedback, mode>>
            /\ UNCHANGED <<quizVars, dashVars>>
       ELSE IF r.threw
       THEN /\ isAuthenticating' = FALSE
            /\ authEvent' = AuthEv(authPc, "threw", "failed")
            /\ UNCHANGED <<slot, authState>>
            /\ route' = Resolve(route, isAuthenticated, FALSE)
            /\ AuthPageFollows(FALSE,
                 IF submitterMounted THEN Feedback(r.message, NullV) ELSE feedback,
                 mode)
            /\ PagesFollow(FALSE)
       ELSE LET p == persistState(nextStateOf(r.data)) IN
            /\ isAuthenticating' = FALSE
            /\ authState' = p.authState
            /\ slot' = p.slot
            /\ authEvent' = AuthEv(authPc, "returned", "ok")
            /\ route' = Resolve("/", Truthy(Get(p.authState, "token")), FALSE)
            /\ AuthPageFollows(TRUE,
                 IF authPc = "signup" THEN Feedback(NullV, SignupSuccess) ELSE feedback,
                 mode)
            /\ PagesFollow(TRUE)
  /\ authPc' = "idle"
  /\ submitterMounted' = FALSE
  /\ UNCHANGED <<logoutsInFlight, normVars>>

\* logout() with no token: persistState at once.
LogoutNoToken ==
  /\ Rendered # "Nothing"
  /\ ~Truthy(token)
  /\ LET p == persistState(EmptyIdentity) IN
       /\ authState' = p.authState
       /\ slot' = p.slot
       /\ route' = Resolve(route, Truthy(Get(p.authState, "token")), isAuthenticating)
  /\ authEvent' = AuthEv("logout", "returned", "none")
  /\ UNCHANGED <<isAuthenticating, authPc, logoutsInFlight, submitterMounted>>
  /\ AuthPageFollows(FALSE, feedback, mode)
  /\ PagesFollow(FALSE)
  /\ UNCHANGED normVars

\* logout() with a token, from the "Log out" button of AppLayout, up to
\* the await of the logout request.  The button is never disabled.
LogoutCall ==
  /\ Rendered # "Nothing"
  /\ Truthy(token)
  /\ logoutsInFlight < MaxLogouts
  /\ logoutsInFlight' = logoutsInFlight + 1
  /\ authEvent' = AuthEv("logout", "pending", "none")
  /\ UNCHANGED <<slot, authState, isAuthenticating, authPc, mode, feedback,
                 submitterMounted, route>>
  /\ UNCHANGED <<quizVars, dashVars, normVars>>

\* Mutant of logoutAfter: a failed logout request is rethrown before the
\* identity is cleared.
logoutRethrows(r) ==
  IF r.threw THEN [authState |-> authState, slot |-> slot, threw |-> TRUE]
  ELSE LET p == persistState(EmptyIdentity) IN
       [authState |-> p.authState, slot |-> p.slot, threw |-> FALSE]

\* logout() once the logout request has settled with r: the catch only
\* logs, so the identity is cleared and the call returns either way.
logoutAfter(r) ==
  LET p == persistState(EmptyIdentity) IN
  [authState |-> p.authState, slot |-> p.slot, threw |-> FALSE]

\* The response to a logout request arrives.  In a tree that has unmounted
\* setAuthState does nothing and nothing redirects; persistState still
\* writes the slot.
LogoutSettle ==
  /\ logoutsInFlight > 0
  /\ logoutsInFlight' = logoutsInFlight - 1
  /\ UNCHANGED <<isAuthenticating, authPc, submitterMounted>>
  /\ \E reply \in LogoutReplies :
       LET r == request(reply)
           p == logoutAfter(r) IN
       /\ slot' = p.slot
       /\ authEvent' = AuthEv("logout", IF p.threw THEN "threw" ELSE "returned",
                               IF r.threw THEN "failed" ELSE "ok")
       /\ IF Rendered = "Nothing"
          THEN /\ UNCHANGED <<authState, route, feedback, mode>>
               /\ UNCHANGED <<quizVars, dashVars>>
          ELSE /\ authState' = p.authState
               /\ route' = Resolve(route, Truthy(Get(p.authState, "token")), isAuthenticating)
               /\ AuthPageFollows(FALSE, feedback, mode)
               /\ PagesFollow(FALSE)
  /\ UNCHANGED normVars

NextAuth ==
  \/ AuthenticateCall
  \/ ToggleMode
  \/ AuthenticateSettle
  \/ LogoutNoToken
  \/ LogoutCall
  \/ LogoutSettle
  \/ Visit

(***************************************************************************)
(* The normalizers on their own                                            *)
(***************************************************************************)
MaxFields == 2

FieldKeys == {"questions", "lessons", "plan", "sections", "a", "b"}
FieldValues == {NullV, Num(5), Str("x"), LessonA, Arr(<<LessonA>>)}

\* Sequences of distinct keys, up to len of them.
RECURSIVE KeySeqsUpTo(_)
KeySeqsUpTo(len) ==
  IF len = 0 THEN {<<>>}
  ELSE LET shorter == KeySeqsUpTo(len - 1) IN
       shorter \cup {Append(ks, key) :
                       ks \in {l \in shorter : Len(l) = len - 1},
                       key \in FieldKeys}

Distinct(ks) == \A i, j \in 1..Len(ks) : i # j => ks[i] # ks[j]

\* The payloads: undefined (an empty body), JSON primitives, arrays, and
\* objects of up to MaxFields fields, whose keys are no array indices (so
\* the order of the text is the own-property order).
Payloads ==
  {Undef, NullV, Num(0), Num(5), Str(""), Str("x"),
   EmptyArr, Arr(<<LessonA>>), Arr(<<LessonA, NullV>>)}
  \cup UNION {{Obj(ks, xs) : xs \in [1..Len(ks) -> FieldValues]} :
                ks \in {l \in KeySeqsUpTo(MaxFields) : Distinct(l)}}

NormInit ==
  /\ normIn \in Payloads
  /\ normOutQ = Undef
  /\ normOutL = Undef

NormInitIdle ==
  /\ normIn = Undef
  /\ normOutQ = Undef
  /\ normOutL = Undef

CallNormalizeQuestions ==
  /\ normOutQ = Undef
  /\ normOutQ' = normalizeQuestions(normIn)
  /\ UNCHANGED <<normIn, normOutL>>
  /\ UNCHANGED <<authVars, quizVars, dashVars>>

CallNormalizeLessons ==
  /\ normOutL = Undef
  /\ normOutL' = normalizeLessons(normIn)
  /\ UNCHANGED <<normIn, normOutQ>>
  /\ UNCHANGED <<authVars, quizVars, dashVars>>

NextNorm ==
  \/ CallNormalizeQuestions
  \/ CallNormalizeLessons

(***************************************************************************)
(* Specifications.  The application holds all four components; each is    *)
(* checked on its own: the steps of one component, from a state in which   *)
(* the page at the location has mounted.                                   *)
(***************************************************************************)
\* The session store at rest, logged in from the durable slot, the router
\* at a protected path.
AuthInitLoggedIn(path) ==
  /\ slot = JSONstringify(Identity(UserAlice, Str("t0")))
  /\ authState = getStoredAuth(slot)
  /\ isAuthenticating = FALSE
  /\ authPc = "idle"
  /\ logoutsInFlight = 0
  /\ mode = AuthPageFresh.mode
  /\ feedback = AuthPageFresh.feedback
  /\ submitterMounted = FALSE
  /\ authEvent = AuthEv("init", "none", "none")
  /\ route = Resolve(path, isAuthenticated, FALSE)

Init == AuthInit /\ PagesInit /\ NormInit
Next == NextAuth \/ NextQuiz \/ NextDash \/ NextNorm
Spec == Init /\ [][Next]_vars

InitAuth == AuthInit /\ PagesInit /\ NormInitIdle
SpecAuth == InitAuth /\ [][NextAuth]_vars

InitQuiz == AuthInitLoggedIn("/quiz") /\ PagesInit /\ NormInitIdle
SpecQuiz == InitQuiz /\ [][NextQuiz]_vars

InitDash == AuthInitLoggedIn("/") /\ PagesInit /\ NormInitIdle
SpecDash == InitDash /\ [][NextDash]_vars

InitNorm == AuthInitLoggedIn("/") /\ PagesInit /\ NormInit
SpecNorm == InitNorm /\ [][NextNorm]_vars

(***************************************************************************)
(* Claims                                                                  *)
(***************************************************************************)
Nullish(v) == v.k \in {"undefined", "null"}

\* C1: in every reachable state of the session store, whenever token is
\* null or absent, user is null as well.
C1_NoTokenNoUser == Nullish(token) => Nullish(user)

\* The slot holds the text of a JSON object.
HoldsObject(text) == text.st = "json" /\ text.val.k = "object"

\* C2: initialization never fails: whatever the durable slot holds that is
\* not an identity object (nothing, text that is not JSON, JSON that is not
\* an object), the store starts logged out and rendering raises no error.
C2_InitNeverFails ==
  (authEvent.op = "init" /\ ~HoldsObject(slot))
    => (~RenderThrows /\ Nullish(user) /\ Nullish(token))

\* C3: after every login, signup or logout that returned, the durable slot
\* holds exactly the in-memory identity, and is absent only when the
\* in-memory identity is {user: null, token: null}.
C3_MemoryAndSlotAgree ==
  authEvent.outcome = "returned"
    => slot = (IF authState = EmptyIdentity THEN NoItem ELSE JSONstringify(authState))

\* C4: logout() always ends with the in-memory identity {user: null,
\* token: null} and the durable slot removed, and returns without raising,
\* whether the logout request succeeded, failed or was skipped.
C4_LogoutAlwaysClears ==
  (authEvent.op = "logout" /\ authEvent.outcome # "pending")
    => (authEvent.outcome = "returned" /\ authState = EmptyIdentity /\ slot = NoItem)

\* A logout whose request failed has completed, starting from a stored
\* identity.
C4_Witness ==
  /\ authEvent = AuthEv("logout", "returned", "failed")
  /\ authState = EmptyIdentity
  /\ slot = NoItem

\* C5: when startQuiz failed (at the start call or at the fetch of the
\* questions), the session kept is not the failed attempt's: session and
\* question list come from the same start attempt, the error is surfaced
\* and loading is reset.
C5_NoPartialSession ==
  quizEvent \in {"startFailed", "fetchFailed"}
    => (sameAttempt /\ ~status.loading /\ Truthy(status.error))

\* The property keys of the ids of the current question list.
questionKeys == {ToPropertyKey(idsOf(questions)[i]) : i \in 1..Len(questions.items)}

\* C6: in every reachable state of the quiz controller the key set of the
\* AnswerMap is the set of ids of the current question list, and right
\* after a successful startQuiz every key maps to the empty string.
C6_AnswerKeysAreQuestionIds ==
  /\ DOMAIN answers = questionKeys
  /\ quizEvent = "startOk" => \A key \in DOMAIN answers : answers[key] = ""

\* A startQuiz has succeeded with two questions of distinct ids, which
\* are on the screen.
C6_Witness ==
  /\ Rendered = "QuizPage"
  /\ quizEvent = "startOk"
  /\ Len(questions.items) = 2
  /\ Cardinality(DOMAIN answers) = 2

\* C7: the ids getQuestionId derives for the positions of a normalized
\* question list (one the page renders) are pairwise distinct.
C7_IdsPairwiseDistinct ==
  Rendered = "QuizPage"
    => \A i, j \in 1..Len(questions.items) :
         i # j => idsOf(questions)[i] # idsOf(questions)[j]

\* C8: a failed submitQuiz leaves session, question list and AnswerMap as
\* they were, surfaces the error and resets loading, and a submitQuiz right
\* after it sends the answers of that AnswerMap; a successful one stores
\* the response as the submission.
C8_SubmitFailureKeepsAnswers ==
  [][/\ quizEvent' = "submitFailed"
          => /\ session' = session
             /\ questions' = questions
             /\ answers' = answers
             /\ status' = Status(FALSE, submitReply'.message)
             /\ Truthy(status'.error)
     /\ (quizEvent = "submitFailed" /\ quizEvent' = "submitSent")
          => sent' = submitBody(session, questions, answers)
     /\ quizEvent' = "submitOk"
          => /\ submission' = submitReply'.data
             /\ status' = Status(FALSE, NullV)]_vars

\* A submit of a fully answered two-question quiz has failed.
C8_Witness ==
  /\ quizEvent = "submitFailed"
  /\ submitReply.threw
  /\ Len(questions.items) = 2
  /\ allAnswered
  /\ status = Status(FALSE, submitReply.message)

\* C9: a refresh in which the summary fetch or the lesson-plan fetch
\* rejected leaves dashboardData and lessonPlan as they were when it began,
\* and reports one error.
C9_FailedRefreshKeepsData ==
  (dashReq.st = "failed" \/ planReq.st = "failed")
    => /\ <<dashboardData, lessonPlan>> = snapshot
       /\ errorsReported = 1
       /\ Truthy(error)

\* The summary fetch succeeded and the lesson-plan fetch failed, after an
\* earlier refresh that succeeded.
C9_Witness ==
  /\ dashReq.st = "ok"
  /\ planReq.st = "failed"
  /\ dashboardData # NullV
  /\ Len(lessonPlan.items) > 0
  /\ <<dashboardData, lessonPlan>> = snapshot

\* The own values of a payload that are structured records (objects and
\* lists; no primitive, no null), in own-property order.
RECURSIVE RecordsOf(_, _)
RecordsOf(xs, i) ==
  IF i > Len(xs) THEN <<>>
  ELSE (IF xs[i].k \in {"object", "array"} THEN <<xs[i]>> ELSE <<>>) \o RecordsOf(xs, i + 1)

\* The structured records among the own values of a payload; undefined
\* and null have no own values.
OwnRecords(payload) ==
  IF payload.k \in {"undefined", "null"} THEN <<>>
  ELSE RecordsOf(ObjectValues(payload), 1)

\* The payload is no array and has no list-valued alias field.
NoListFound(payload) ==
  /\ ~IsArray(payload)
  /\ \A key \in {"questions", "lessons", "plan", "sections"} : ~IsArray(Get(payload, key))

\* C10: for a payload that is no array and has no list-valued questions,
\* lessons, plan or sections field, normalizeQuestions and normalizeLessons
\* both return the payload's own values that are structured records, in
\* key order, primitives and null discarded.
C10_FallbackKeepsRecords ==
  NoListFound(normIn)
    => /\ normOutQ # Undef => normOutQ = Arr(OwnRecords(normIn))
       /\ normOutL # Undef => normOutL = Arr(OwnRecords(normIn))

\* A request of the refresh pair is still in flight.
InFlight == dashReq.st = "pending" \/ planReq.st = "pending"

\* C11: while the summary fetch or the lesson-plan fetch of a refresh is
\* still in flight, the loading flag is true (so the refresh button is
\* disabled), also when the other request has already rejected.
C11_LoadingUntilBothSettle == InFlight => loading

\* C12: every submit request sent from the submit button is sent only
\* when no other quiz request is loading and the question list is
\* non-empty, and its answers array has exactly questions.length entries,
\* entry i being the non-empty value recorded for the i-th question.
C12_SubmitGatedAndPositional ==
  [][(quizPc # "submitting" /\ quizPc' = "submitting")
       => /\ quizPc = "idle"
          /\ ~status.loading
          /\ Len(questions.items) > 0
          /\ LET payload == Get(sent', "answers") IN
             /\ IsArray(payload)
             /\ Len(payload.items) = Len(questions.items)
             /\ \A i \in 1..Len(questions.items) :
                  LET key == ToPropertyKey(idsOf(questions)[i]) IN
                  /\ key \in DOMAIN answers
                  /\ answers[key] # ""
                  /\ payload.items[i] = Str(answers[key])]_vars

\* A submit request for two questions with two different recorded values
\* is in flight.
C12_Witness ==
  /\ quizEvent = "submitSent"
  /\ quizPc = "submitting"
  /\ Len(questions.items) = 2
  /\ Len(Get(sent, "answers").items) = 2
  /\ Get(sent, "answers").items[1] # Get(sent, "answers").items[2]

\* C13: every summary request goes to /api/dashboard/{id of the user}, the
\* bearer token is in the URL of no request of the pair, and it is sent
\* only in the Authorization header of the lesson-plan request.
C13_TokenOnlyInHeader ==
  /\ dashReq.st # "none"
       => /\ dashReq.path = "/api/dashboard/" \o ToStr(Get(user, "id"))
          /\ dashReq.path # "/api/dashboard/" \o ToStr(token)
          /\ dashReq.authorization = ""
  /\ planReq.st # "none"
       => /\ planReq.path = "/api/lesson-plan"
          /\ planReq.authorization = "Bearer " \o ToStr(token)

\* C14: whenever login() or signup() has returned without raising, the
\* session is authenticated: token is non-empty, isAuthenticated is true
\* and the durable slot holds the identity, also when the server answered
\* 2xx with an empty, unparsable or token-less body.
C14_ReturnMeansAuthenticated ==
  (authEvent.op \in {"login", "signup"} /\ authEvent.outcome = "returned")
    => /\ Truthy(token)
       /\ isAuthenticated
       /\ slot = JSONstringify(authState)

\* C15: the dashboard page and the quiz page are rendered only when
\* isAuthenticated is true and isAuthenticating is false, and whenever the
\* session is unauthenticated and no login is in flight the router rests
\* at /auth, whatever login, signup, logout or navigation came before: an
\* unauthenticated visit to / or /quiz, and a logout on a protected page,
\* end at /auth.
C15_ProtectedPagesNeedSession ==
  /\ Rendered \in {"DashboardPage", "QuizPage"}
       => isAuthenticated /\ ~isAuthenticating
  /\ (~RenderThrows /\ ~isAuthenticated /\ ~isAuthenticating) => route = "/auth"
  /\ Rendered \notin {"NavigateAuth", "NavigateHome"}

\* A logout that was started with a token, hence on a protected page, has
\* settled, and the router has left the page for /auth.
C15_Witness ==
  /\ authEvent.op = "logout"
  /\ authEvent.outcome = "returned"
  /\ authEvent.net \in {"ok", "failed"}
  /\ ~isAuthenticated
  /\ route = "/auth"
  /\ Rendered = "AuthPage"

====
